---- MODULE Spec2Model ----
(***************************************************************************)
(* Model of models/deeptau_python/1/model.py: the Triton Python backend    *)
(* callback TritonPythonModel (initialize / execute / finalize).           *)
(*                                                                         *)
(* Conventions.                                                            *)
(*  - A float is represented by twice its value (an integer number of      *)
(*    halves), so 0.5 is 1 and 2.5 is 5; astype is modelled on that        *)
(*    representation (truncation toward zero for int32, != 0 for bool).    *)
(*  - 1-D arrays and the rows of a 2-D array are sequences: Python's       *)
(*    a[k] is the sequence element k+1.  Grid coordinates are data of the  *)
(*    program and stay 0-based: a grid is a function                       *)
(*    [0..N-1 -> [0..G-1 -> [0..G-1 -> vector]]].                          *)
(*  - execute is followed through its for loop: ExecuteCall (lines 76-80), *)
(*    ExecuteRequest (one iteration, lines 84-143), ExecuteReturn (147).   *)
(*    No other operation of the instance runs while pc = "executing".      *)
(*  - result is what the caller got from the last finished call (a list of *)
(*    responses, or the IndexError that left execute); prev keeps an       *)
(*    earlier outcome so that two calls can be compared.                   *)
(*                                                                         *)
(* Three specifications share the operations and differ in the requests    *)
(* they draw: Spec (calls of several requests), SpecScatter (one request   *)
(* per call, every index array up to the bounds) and SpecPair (a finished  *)
(* call is remembered and compared with a later one).                      *)
(***************************************************************************)
EXTENDS Integers, Sequences, FiniteSets, TLC

VARIABLES
    pc,                     \* "unloaded" | "ready" | "executing" | "finalized"
    model_config,           \* self.model_config
    self_output_tau_dtype,  \* self.output_tau_dtype
    self_output_inner_dtype,\* self.output_inner_dtype
    self_output_outer_dtype,\* self.output_outer_dtype
    requests,               \* execute's argument: the requests and their input tensors
    idx,                    \* number of requests the for loop has taken so far
    responses,              \* execute's local list `responses`
    output_tau_dtype,       \* execute's local output_tau_dtype
    output_inner_dtype,     \* execute's local output_inner_dtype
    output_outer_dtype,     \* execute's local output_outer_dtype
    output_inner_forconv,   \* execute's local grid of the current iteration
    output_outer_forconv,   \* execute's local grid of the current iteration
    result,                 \* what the last finished execute call gave its caller
    prev                    \* an earlier finished call, kept for comparison

vars == <<pc, model_config, self_output_tau_dtype, self_output_inner_dtype,
          self_output_outer_dtype, requests, idx, responses, output_tau_dtype,
          output_inner_dtype, output_outer_dtype, output_inner_forconv,
          output_outer_forconv, result, prev>>

selfVars == <<model_config, self_output_tau_dtype, self_output_inner_dtype,
              self_output_outer_dtype>>

localVars == <<requests, idx, responses, output_tau_dtype, output_inner_dtype,
               output_outer_dtype, output_inner_forconv, output_outer_forconv>>

(***************************************************************************)
(* Program constants and bounds                                            *)
(***************************************************************************)
InnerGrid == 11
OuterGrid == 21

MaxReqs == 2
MaxPairReqs == 2
MaxN == 2
MaxInnerM == 2
MaxOuterM == 2
InnerF == 2
OuterF == 1

(***************************************************************************)
(* Datatypes and the cast                                                  *)
(***************************************************************************)
Unset == "unset"

TritonStringToNumpy(s) ==
    CASE s = "TYPE_FP32" -> "float32"
      [] s = "TYPE_INT32" -> "int32"
      [] s = "TYPE_BOOL" -> "bool"
      [] OTHER -> "KeyError"   \* not a name the configurations here declare

\* ndarray.astype on one element (a float held as a number of halves).
AstypeScalar(v, dtype) ==
    CASE dtype = "float32" -> v
      [] dtype = "int32" -> IF v >= 0 THEN 2 * (v \div 2) ELSE -(2 * ((-v) \div 2))
      [] dtype = "bool" -> IF v = 0 THEN 0 ELSE 2
      [] OTHER -> v

AstypeVec(vec, dtype) == [f \in DOMAIN vec |-> AstypeScalar(vec[f], dtype)]

AstypeGrid(grid, dtype) ==
    [n \in DOMAIN grid |-> [r \in DOMAIN grid[n] |-> [c \in DOMAIN grid[n][r] |->
        AstypeVec(grid[n][r][c], dtype)]]]

(***************************************************************************)
(* Array helpers of execute                                                *)
(***************************************************************************)
\* np.squeeze(a, axis=2) on a 4-D array (rows, 1, 1, F)
SqueezeAxis2(a) == [m \in DOMAIN a |-> [k \in DOMAIN a[m] |-> a[m][k][1]]]

\* np.squeeze(a, axis=1) on a 3-D array (rows, 1, F)
SqueezeAxis1(a) == [m \in DOMAIN a |-> a[m][1]]

\* a[-1]
LastRow(a) == a[Len(a)]

\* Faulty variant of AllButLast: a[1:], the first row dropped instead of the last.
AllButFirst(a) == SubSeq(a, 2, Len(a))

\* a[:-1]
AllButLast(a) == SubSeq(a, 1, Len(a) - 1)

\* in_tau.shape[0]
Shape0(a) == Len(a)

\* Faulty variant of Tile: the grid allocated with np.zeros instead of the sentinel.
TileZeros(zeropad, ntaus, G) ==
    [n \in 0..(ntaus - 1) |-> [r \in 0..(G - 1) |-> [c \in 0..(G - 1) |->
        [f \in DOMAIN zeropad |-> 0]]]]

\* Faulty variant of Tile: the grid allocated once and reused by the later iterations
\* of the loop when the shape is the same.
TileReused(zeropad, ntaus, G) ==
    LET fresh == [n \in 0..(ntaus - 1) |-> [r \in 0..(G - 1) |-> [c \in 0..(G - 1) |->
                     zeropad]]]
        kept == IF G = InnerGrid THEN output_inner_forconv ELSE output_outer_forconv
    IN IF idx >= 1 /\ ntaus >= 1 /\ DOMAIN kept = DOMAIN fresh
       THEN kept
       ELSE fresh

\* np.tile(zeropad[np.newaxis, np.newaxis, np.newaxis, :], (ntaus, G, G, 1))
Tile(zeropad, ntaus, G) ==
    [n \in 0..(ntaus - 1) |-> [r \in 0..(G - 1) |-> [c \in 0..(G - 1) |-> zeropad]]]

\* tuple(pos.T): the three coordinate columns of an (M, 3) array
TupleT(pos) == [a \in 1..3 |-> [k \in 1..Len(pos) |-> pos[k][a]]]

\* Faulty variant of InBounds: a bounds check that refuses negative indices.
InBoundsNonNegative(i, dim) == 0 <= i /\ i < dim

\* numpy's bounds rule for an integer index on an axis of size dim
InBounds(i, dim) == -dim <= i /\ i < dim

\* numpy's wraparound of a negative index
NormIndex(i, dim) == IF i < 0 THEN i + dim ELSE i

\* the index check numpy makes before an advanced assignment writes anything
IndicesOk(cols, ntaus, G) ==
    \A k \in DOMAIN cols[1] :
        /\ InBounds(cols[1][k], ntaus)
        /\ InBounds(cols[2][k], G)
        /\ InBounds(cols[3][k], G)

\* grid[cols] = vals, entries k..M written in array order
RECURSIVE AssignFrom(_, _, _, _, _, _)
AssignFrom(grid, cols, vals, ntaus, G, k) ==
    IF k > Len(cols[1]) THEN grid
    ELSE LET n == NormIndex(cols[1][k], ntaus)
             r == NormIndex(cols[2][k], G)
             c == NormIndex(cols[3][k], G)
         IN AssignFrom([grid EXCEPT ![n][r][c] = vals[k]], cols, vals, ntaus, G, k + 1)

\* Faulty variant of SetItem: entries written from the last to the first, so that the
\* first entry of a repeated cell is the one that stays.
RECURSIVE AssignDownFrom(_, _, _, _, _, _)
AssignDownFrom(grid, cols, vals, ntaus, G, k) ==
    IF k < 1 THEN grid
    ELSE LET n == NormIndex(cols[1][k], ntaus)
             r == NormIndex(cols[2][k], G)
             c == NormIndex(cols[3][k], G)
         IN AssignDownFrom([grid EXCEPT ![n][r][c] = vals[k]], cols, vals, ntaus, G, k - 1)

SetItemFirstWins(grid, cols, vals, ntaus, G) ==
    IF IndicesOk(cols, ntaus, G)
    THEN [raised |-> FALSE,
          grid |-> AssignDownFrom(grid, cols, vals, ntaus, G, Len(cols[1]))]
    ELSE [raised |-> TRUE, grid |-> grid]

\* output[tuple(pos.T)] = features: IndexError, or the grid after the writes
SetItem(grid, cols, vals, ntaus, G) ==
    IF IndicesOk(cols, ntaus, G)
    THEN [raised |-> FALSE, grid |-> AssignFrom(grid, cols, vals, ntaus, G, 1)]
    ELSE [raised |-> TRUE, grid |-> grid]

(***************************************************************************)
(* One iteration of execute's for loop                                     *)
(***************************************************************************)
\* Faulty variant of OutTensorTau: the score cast with the inner grid's datatype.
OutTensorTauInnerDtype(in_tau) ==
    [k \in DOMAIN in_tau |-> AstypeScalar(in_tau[k], output_inner_dtype)]

OutTensorTau(in_tau) ==
    [k \in DOMAIN in_tau |-> AstypeScalar(in_tau[k], output_tau_dtype)]

OutTensorInner(grid) == AstypeGrid(grid, output_inner_dtype)

OutTensorOuter(grid) == AstypeGrid(grid, output_outer_dtype)

InferenceResponse(t_tau, t_inner, t_outer) ==
    [output_tau |-> t_tau, output_inner |-> t_inner, output_outer |-> t_outer]

ProcessRequest(request) ==
    LET in_tau == request.input_tau
        inner2 == SqueezeAxis1(SqueezeAxis2(request.input_inner_forconv))
        zeropad_inner == LastRow(inner2)
        in_inner_forconv == AllButLast(inner2)
        outer2 == SqueezeAxis1(SqueezeAxis2(request.input_outer_forconv))
        zeropad_outer == LastRow(outer2)
        in_outer_forconv == AllButLast(outer2)
        ntaus == Shape0(in_tau)
        tiled_inner == Tile(zeropad_inner, ntaus, InnerGrid)
        tiled_outer == Tile(zeropad_outer, ntaus, OuterGrid)
        set_inner == SetItem(tiled_inner, TupleT(request.input_inner_pos),
                             in_inner_forconv, ntaus, InnerGrid)
        set_outer == SetItem(tiled_outer, TupleT(request.input_outer_pos),
                             in_outer_forconv, ntaus, OuterGrid)
    IN IF set_inner.raised
       THEN [raised |-> TRUE, inner |-> tiled_inner, outer |-> tiled_outer,
             response |-> InferenceResponse(<<>>, <<>>, <<>>)]
       ELSE IF set_outer.raised
       THEN [raised |-> TRUE, inner |-> set_inner.grid, outer |-> tiled_outer,
             response |-> InferenceResponse(<<>>, <<>>, <<>>)]
       ELSE [raised |-> FALSE, inner |-> set_inner.grid, outer |-> set_outer.grid,
             response |-> InferenceResponse(OutTensorTau(in_tau),
                                            OutTensorInner(set_inner.grid),
                                            OutTensorOuter(set_outer.grid))]

(***************************************************************************)
(* Inputs                                                                  *)
(***************************************************************************)
OutputNames == {"output_tau", "output_inner", "output_outer"}

MkConfig(t, i, o) ==
    [name \in OutputNames |->
        [data_type |-> CASE name = "output_tau" -> t
                         [] name = "output_inner" -> i
                         [] OTHER -> o]]

Configs == {MkConfig("TYPE_FP32", "TYPE_FP32", "TYPE_FP32"),
            MkConfig("TYPE_FP32", "TYPE_INT32", "TYPE_BOOL"),
            MkConfig("TYPE_INT32", "TYPE_BOOL", "TYPE_FP32")}

\* tau scores -1.5, 0.5, 2.5, ... (in halves)
TauInput(N) == [k \in 1..N |-> 4 * k - 7]

\* feature batch of shape (M+1, 1, 1, F): rows that differ from each other and
\* from the rows of a batch of another length (odd values are fractional)
FeatureBatch(M, F, base) ==
    [m \in 1..(M + 1) |-> << << [f \in 1..F |-> base + 20 * M + 10 * m + f] >> >>]

MkRequest(N, ipos, opos) ==
    [input_tau |-> TauInput(N),
     input_inner_forconv |-> FeatureBatch(Len(ipos), InnerF, 0),
     input_outer_forconv |-> FeatureBatch(Len(opos), OuterF, 200),
     input_inner_pos |-> ipos,
     input_outer_pos |-> opos]

SeqsUpTo(S, n) == UNION {[1..m -> S] : m \in 0..n}

\* Batch-level universe: requests of one or two objects whose index arrays
\* are empty, address one cell (the outer one through a negative row), or
\* hold an entry past the inner or the outer grid.
PosPairsSmall ==
    {<< <<>>, <<>> >>,
     << <<<<0, 3, 4>>>>, <<<<0, -1, 20>>>> >>,
     << <<<<0, 11, 0>>>>, <<>> >>,
     << <<>>, <<<<0, 0, 21>>>> >>}

Requests == {MkRequest(N, pp[1], pp[2]) : N \in {1, 2}, pp \in PosPairsSmall}

Calls == SeqsUpTo(Requests, MaxReqs)

\* Scatter-level universe: one request per call, every index array up to the
\* bound over a few entries: a valid one, one that wraps onto it for N = 1,
\* and one on the second object (past the batch for N < 2).
InnerEntries == {<<0, 3, 4>>, <<-1, -8, -7>>, <<1, 10, 0>>}

OuterEntries == {<<0, 20, 0>>, <<0, -1, -21>>}

ScatterRequests ==
    {MkRequest(N, ip, op) : N \in 0..MaxN, ip \in SeqsUpTo(InnerEntries, MaxInnerM),
                            op \in SeqsUpTo(OuterEntries, MaxOuterM)}

ScatterCalls == {<<r>> : r \in ScatterRequests}

\* Pair universe: calls over three one-object requests, for comparing two calls.
PairRequests ==
    {MkRequest(1, pp[1], pp[2]) :
        pp \in {<< <<>>, <<>> >>, << <<<<0, 3, 4>>>>, <<>> >>, << <<<<0, 11, 0>>>>, <<>> >>}}

PairCalls == SeqsUpTo(PairRequests, MaxPairReqs)

(***************************************************************************)
(* State                                                                   *)
(***************************************************************************)
NoCall == [kind |-> "none", requests |-> <<>>, responses |-> <<>>, error |-> ""]

Init ==
    /\ pc = "unloaded"
    /\ model_config = <<>>
    /\ self_output_tau_dtype = Unset
    /\ self_output_inner_dtype = Unset
    /\ self_output_outer_dtype = Unset
    /\ requests = <<>>
    /\ idx = 0
    /\ responses = <<>>
    /\ output_tau_dtype = Unset
    /\ output_inner_dtype = Unset
    /\ output_outer_dtype = Unset
    /\ output_inner_forconv = <<>>
    /\ output_outer_forconv = <<>>
    /\ result = NoCall
    /\ prev = NoCall

(***************************************************************************)
(* Operations                                                              *)
(***************************************************************************)
\* initialize(args): parse the configuration, cache the three numpy dtypes
Initialize(config) ==
    /\ pc = "unloaded"
    /\ pc' = "ready"
    /\ model_config' = config
    /\ self_output_tau_dtype' = TritonStringToNumpy(config["output_tau"].data_type)
    /\ self_output_inner_dtype' = TritonStringToNumpy(config["output_inner"].data_type)
    /\ self_output_outer_dtype' = TritonStringToNumpy(config["output_outer"].data_type)
    /\ UNCHANGED <<localVars, result, prev>>

\* execute(requests), lines 76-80: read the cached dtypes, responses = []
ExecuteCall(reqs) ==
    /\ pc = "ready"
    /\ result.kind = "none"
    /\ pc' = "executing"
    /\ requests' = reqs
    /\ idx' = 0
    /\ responses' = <<>>
    /\ output_tau_dtype' = self_output_tau_dtype
    /\ output_inner_dtype' = self_output_inner_dtype
    /\ output_outer_dtype' = self_output_outer_dtype
    /\ output_inner_forconv' = <<>>
    /\ output_outer_forconv' = <<>>
    /\ UNCHANGED <<selfVars, result, prev>>

\* Faulty variant of AppendResponse: responses.insert(0, inference_response).
PrependResponse(list, inference_response) == <<inference_response>> \o list

\* responses.append(inference_response)
AppendResponse(list, inference_response) == Append(list, inference_response)

\* What one iteration does with the outcome p of its body: an IndexError
\* leaves execute, and its frame (the locals) is gone with it; otherwise the
\* response is appended.  inputs_after is the requests' memory after the body.
LoopStep(p, inputs_after) ==
    IF p.raised
    THEN /\ pc' = "ready"
         /\ result' = [kind |-> "raised", requests |-> inputs_after,
                       responses |-> <<>>, error |-> "IndexError"]
         /\ requests' = <<>>
         /\ idx' = 0
         /\ responses' = <<>>
         /\ output_tau_dtype' = Unset
         /\ output_inner_dtype' = Unset
         /\ output_outer_dtype' = Unset
         /\ output_inner_forconv' = <<>>
         /\ output_outer_forconv' = <<>>
    ELSE /\ pc' = "executing"
         /\ idx' = idx + 1
         /\ requests' = inputs_after
         /\ output_inner_forconv' = p.inner
         /\ output_outer_forconv' = p.outer
         /\ responses' = AppendResponse(responses, p.response)
         /\ UNCHANGED <<result, output_tau_dtype, output_inner_dtype,
                        output_outer_dtype>>

\* Faulty variant of ExecuteRequest: the body wrapped in try/except IndexError, the
\* error put on that request's response and the loop carried on.
ExecuteRequestCatch ==
    /\ pc = "executing"
    /\ idx < Len(requests)
    /\ LET p == ProcessRequest(requests[idx + 1])
       IN /\ pc' = "executing"
          /\ idx' = idx + 1
          /\ output_inner_forconv' = p.inner
          /\ output_outer_forconv' = p.outer
          /\ responses' = AppendResponse(responses, p.response)
    /\ UNCHANGED <<selfVars, prev, result, requests, output_tau_dtype,
                   output_inner_dtype, output_outer_dtype>>

\* the sentinel row of a feature batch overwritten by its first row
SentinelOverwritten(batch) == [batch EXCEPT ![Len(batch)] = batch[1]]

\* Faulty variant of ExecuteRequest: the grid is a view on the sentinel row of the
\* input (no copy), so the scatter writes through to the request's tensor.
ExecuteRequestInPlace ==
    /\ pc = "executing"
    /\ idx < Len(requests)
    /\ LoopStep(ProcessRequest(requests[idx + 1]),
                [requests EXCEPT ![idx + 1].input_inner_forconv =
                                     SentinelOverwritten(@)])
    /\ UNCHANGED <<selfVars, prev>>

\* one iteration of `for request in requests`: the inputs are only read
ExecuteRequest ==
    /\ pc = "executing"
    /\ idx < Len(requests)
    /\ LoopStep(ProcessRequest(requests[idx + 1]), requests)
    /\ UNCHANGED <<selfVars, prev>>

\* Faulty variant of ExecuteReturn: execute rebinds a cached datatype on its way out
\* (self.output_inner_dtype = output_tau_dtype).
ExecuteReturnRebinds ==
    /\ pc = "executing"
    /\ idx = Len(requests)
    /\ pc' = "ready"
    /\ result' = [kind |-> "returned", requests |-> requests,
                  responses |-> responses, error |-> ""]
    /\ requests' = <<>>
    /\ idx' = 0
    /\ responses' = <<>>
    /\ output_tau_dtype' = Unset
    /\ output_inner_dtype' = Unset
    /\ output_outer_dtype' = Unset
    /\ output_inner_forconv' = <<>>
    /\ output_outer_forconv' = <<>>
    /\ self_output_inner_dtype' = output_tau_dtype
    /\ UNCHANGED <<model_config, self_output_tau_dtype, self_output_outer_dtype, prev>>

\* return responses: the caller holds the list, the frame is gone
ExecuteReturn ==
    /\ pc = "executing"
    /\ idx = Len(requests)
    /\ pc' = "ready"
    /\ result' = [kind |-> "returned", requests |-> requests,
                  responses |-> responses, error |-> ""]
    /\ requests' = <<>>
    /\ idx' = 0
    /\ responses' = <<>>
    /\ output_tau_dtype' = Unset
    /\ output_inner_dtype' = Unset
    /\ output_outer_dtype' = Unset
    /\ output_inner_forconv' = <<>>
    /\ output_outer_forconv' = <<>>
    /\ UNCHANGED <<selfVars, prev>>

\* The server sends the responses (or the error) of the finished call; the
\* next execute call is made after that.
Deliver ==
    /\ pc = "ready"
    /\ result.kind # "none"
    /\ result' = NoCall
    /\ UNCHANGED <<pc, selfVars, localVars, prev>>

\* finalize(): prints, touches nothing
Finalize ==
    /\ pc = "ready"
    /\ pc' = "finalized"
    /\ UNCHANGED <<selfVars, localVars, result, prev>>

\* The observer keeps the outcome of the finished call for later comparison.
Remember ==
    /\ pc = "ready"
    /\ result.kind # "none"
    /\ prev' = result
    /\ UNCHANGED <<pc, selfVars, localVars, result>>

Next ==
    \/ \E config \in Configs : Initialize(config)
    \/ \E reqs \in Calls : ExecuteCall(reqs)
    \/ ExecuteRequest
    \/ ExecuteReturn
    \/ Deliver
    \/ Finalize

Spec == Init /\ [][Next]_vars

NextScatter ==
    \/ \E config \in Configs : Initialize(config)
    \/ \E reqs \in ScatterCalls : ExecuteCall(reqs)
    \/ ExecuteRequest
    \/ ExecuteReturn
    \/ Deliver
    \/ Finalize

SpecScatter == Init /\ [][NextScatter]_vars

NextPair ==
    \/ \E config \in Configs : Initialize(config)
    \/ \E reqs \in PairCalls : ExecuteCall(reqs)
    \/ ExecuteRequest
    \/ ExecuteReturn
    \/ Remember
    \/ Deliver
    \/ Finalize

SpecPair == Init /\ [][NextPair]_vars

(***************************************************************************)
(* Reading a request and a grid, for the properties below                  *)
(***************************************************************************)
NumObjects(req) == Len(req.input_tau)

NumEntries(pos) == Len(pos)

\* row i (1..M) of a feature batch, and its sentinel: the last row
FeatureOf(batch, i) == batch[i][1][1]

SentinelOf(batch) == batch[Len(batch)][1][1]

ValidPos(pos, N, G) ==
    \A k \in 1..Len(pos) :
        pos[k][1] \in 0..(N - 1) /\ pos[k][2] \in 0..(G - 1) /\ pos[k][3] \in 0..(G - 1)

ValidRequest(req) ==
    /\ ValidPos(req.input_inner_pos, NumObjects(req), InnerGrid)
    /\ ValidPos(req.input_outer_pos, NumObjects(req), OuterGrid)

HasShape(grid, N, G) ==
    /\ DOMAIN grid = 0..(N - 1)
    /\ \A n \in DOMAIN grid :
        /\ DOMAIN grid[n] = 0..(G - 1)
        /\ \A r \in DOMAIN grid[n] : DOMAIN grid[n][r] = 0..(G - 1)

Cells(N, G) == (0..(N - 1)) \X (0..(G - 1)) \X (0..(G - 1))

Addressed(pos, cell) == \E k \in 1..Len(pos) : pos[k] = cell

\* the loop has just finished an iteration: the local grids are those of
\* requests[idx], and responses[idx] is its response
AfterIteration == pc = "executing" /\ idx >= 1 /\ Len(responses) = idx

Cached(name) == TritonStringToNumpy(model_config[name].data_type)

(***************************************************************************)
(* C1: for a request with valid inputs, every cell of the inner and of the *)
(* outer grid whose coordinate triple does not occur in the index array    *)
(* holds exactly the sentinel, the last row of the feature batch (and the  *)
(* response tensor holds that cell through the declared cast).             *)
(***************************************************************************)
FilledWith(grid, pos, N, G, vec) ==
    /\ HasShape(grid, N, G)
    /\ \A cell \in Cells(N, G) :
        ~Addressed(pos, cell) => grid[cell[1]][cell[2]][cell[3]] = vec

C1_UnaddressedCellsHoldSentinel ==
    (AfterIteration /\ ValidRequest(requests[idx])) =>
        LET req == requests[idx]
            N == NumObjects(req)
        IN /\ FilledWith(output_inner_forconv, req.input_inner_pos, N, InnerGrid,
                         SentinelOf(req.input_inner_forconv))
           /\ FilledWith(output_outer_forconv, req.input_outer_pos, N, OuterGrid,
                         SentinelOf(req.input_outer_forconv))
           /\ FilledWith(responses[idx].output_inner, req.input_inner_pos, N, InnerGrid,
                         AstypeVec(SentinelOf(req.input_inner_forconv),
                                   Cached("output_inner")))
           /\ FilledWith(responses[idx].output_outer, req.input_outer_pos, N, OuterGrid,
                         AstypeVec(SentinelOf(req.input_outer_forconv),
                                   Cached("output_outer")))

\* a valid request with objects, index entries in both arrays (M = 0 too, on
\* other runs), whose unaddressed cell (0,0,0) differs from an addressed one
C1_Witness ==
    /\ AfterIteration
    /\ ValidRequest(requests[idx])
    /\ NumObjects(requests[idx]) = 2
    /\ Len(requests[idx].input_inner_pos) >= 1
    /\ Len(requests[idx].input_outer_pos) >= 1
    /\ output_inner_forconv[0][0][0] = SentinelOf(requests[idx].input_inner_forconv)
    /\ output_inner_forconv[0][3][4] # output_inner_forconv[0][0][0]
    /\ output_outer_forconv[0][20][0] # output_outer_forconv[0][0][0]

(***************************************************************************)
(* C2, as stated: for a request with valid inputs and every i in [0,M),    *)
(* the cell that is the i-th entry of the index array equals features[i].  *)
(***************************************************************************)
EntryHolds(grid, pos, i, vec) ==
    grid[pos[i][1]][pos[i][2]][pos[i][3]] = vec

C2_EveryEntryHoldsItsFeature ==
    (AfterIteration /\ ValidRequest(requests[idx])) =>
        LET req == requests[idx]
        IN /\ \A i \in 1..Len(req.input_inner_pos) :
                EntryHolds(output_inner_forconv, req.input_inner_pos, i,
                           FeatureOf(req.input_inner_forconv, i))
           /\ \A i \in 1..Len(req.input_outer_pos) :
                EntryHolds(output_outer_forconv, req.input_outer_pos, i,
                           FeatureOf(req.input_outer_forconv, i))

(***************************************************************************)
(* C2, amended: for a request with valid inputs and every i in [0,M) such  *)
(* that no later entry of the index array addresses the same cell, the     *)
(* cell that is the i-th entry equals features[i] (and the response tensor *)
(* holds it through the declared cast).                                    *)
(***************************************************************************)
NoLaterEntry(pos, i) == \A k \in (i + 1)..Len(pos) : pos[k] # pos[i]

C2_LastEntryOfACellHoldsItsFeature ==
    (AfterIteration /\ ValidRequest(requests[idx])) =>
        LET req == requests[idx]
            N == NumObjects(req)
        IN /\ HasShape(output_inner_forconv, N, InnerGrid)
           /\ HasShape(output_outer_forconv, N, OuterGrid)
           /\ HasShape(responses[idx].output_inner, N, InnerGrid)
           /\ HasShape(responses[idx].output_outer, N, OuterGrid)
           /\ \A i \in 1..Len(req.input_inner_pos) :
                NoLaterEntry(req.input_inner_pos, i) =>
                    /\ EntryHolds(output_inner_forconv, req.input_inner_pos, i,
                                  FeatureOf(req.input_inner_forconv, i))
                    /\ EntryHolds(responses[idx].output_inner, req.input_inner_pos, i,
                                  AstypeVec(FeatureOf(req.input_inner_forconv, i),
                                            Cached("output_inner")))
           /\ \A i \in 1..Len(req.input_outer_pos) :
                NoLaterEntry(req.input_outer_pos, i) =>
                    /\ EntryHolds(output_outer_forconv, req.input_outer_pos, i,
                                  FeatureOf(req.input_outer_forconv, i))
                    /\ EntryHolds(responses[idx].output_outer, req.input_outer_pos, i,
                                  AstypeVec(FeatureOf(req.input_outer_forconv, i),
                                            Cached("output_outer")))

\* two distinct cells addressed, on two objects, each by one entry
C2_Witness ==
    /\ AfterIteration
    /\ ValidRequest(requests[idx])
    /\ Len(requests[idx].input_inner_pos) = 2
    /\ requests[idx].input_inner_pos[1] # requests[idx].input_inner_pos[2]
    /\ Len(requests[idx].input_outer_pos) = 1
    /\ output_inner_forconv[1][10][0] = FeatureOf(requests[idx].input_inner_forconv, 1)
    /\ output_inner_forconv[0][3][4] = FeatureOf(requests[idx].input_inner_forconv, 2)

(***************************************************************************)
(* C3: when two or more entries of an index array address the same cell,   *)
(* the cell ends with the feature vector of the entry with the largest     *)
(* position: no sum, no merge, and no earlier entry survives.              *)
(***************************************************************************)
EntriesAt(pos, cell) == {k \in 1..Len(pos) : pos[k] = cell}

MaxOf(S) == CHOOSE k \in S : \A j \in S : j <= k

RECURSIVE SumVec(_, _, _)
SumVec(batch, S, F) ==
    IF S = {} THEN [f \in 1..F |-> 0]
    ELSE LET k == MaxOf(S)
             rest == SumVec(batch, S \ {k}, F)
         IN [f \in 1..F |-> rest[f] + FeatureOf(batch, k)[f]]

LastWriteWins(grid, pos, batch, N, G) ==
    /\ HasShape(grid, N, G)
    /\ \A cell \in Cells(N, G) :
        Cardinality(EntriesAt(pos, cell)) >= 2 =>
            LET S == EntriesAt(pos, cell)
                v == grid[cell[1]][cell[2]][cell[3]]
            IN /\ v = FeatureOf(batch, MaxOf(S))
               /\ v # SumVec(batch, S, Len(v))
               /\ \A k \in S \ {MaxOf(S)} : v # FeatureOf(batch, k)

C3_LastWriteWins ==
    (AfterIteration /\ ValidRequest(requests[idx])) =>
        LET req == requests[idx]
            N == NumObjects(req)
        IN /\ LastWriteWins(output_inner_forconv, req.input_inner_pos,
                            req.input_inner_forconv, N, InnerGrid)
           /\ LastWriteWins(output_outer_forconv, req.input_outer_pos,
                            req.input_outer_forconv, N, OuterGrid)

\* the same cell addressed twice: it holds the second feature row
C3_Witness ==
    /\ AfterIteration
    /\ ValidRequest(requests[idx])
    /\ Len(requests[idx].input_inner_pos) = 2
    /\ requests[idx].input_inner_pos[1] = <<0, 3, 4>>
    /\ requests[idx].input_inner_pos[2] = <<0, 3, 4>>
    /\ output_inner_forconv[0][3][4] = FeatureOf(requests[idx].input_inner_forconv, 2)
    /\ FeatureOf(requests[idx].input_inner_forconv, 2)
         # FeatureOf(requests[idx].input_inner_forconv, 1)

(***************************************************************************)
(* C5: output_tau has the length and the element order of input_tau, each  *)
(* element cast to the datatype declared for output_tau; the inner grid is *)
(* cast with the datatype declared for output_inner and the outer grid     *)
(* with the one declared for output_outer.                                 *)
(***************************************************************************)
DeclaredCast(v, name) ==
    LET declared == model_config[name].data_type
    IN CASE declared = "TYPE_FP32" -> v
         [] declared = "TYPE_INT32" -> IF v >= 0 THEN v - (v % 2) ELSE v + ((-v) % 2)
         [] declared = "TYPE_BOOL" -> IF v # 0 THEN 2 ELSE 0

GridIsCastOf(tensor, grid, N, G, name) ==
    /\ HasShape(tensor, N, G)
    /\ HasShape(grid, N, G)
    /\ \A cell \in Cells(N, G) :
        LET out == tensor[cell[1]][cell[2]][cell[3]]
            in == grid[cell[1]][cell[2]][cell[3]]
        IN /\ DOMAIN out = DOMAIN in
           /\ \A f \in DOMAIN in : out[f] = DeclaredCast(in[f], name)

C5_OutputsCastToDeclaredTypes ==
    AfterIteration =>
        LET req == requests[idx]
            N == NumObjects(req)
            resp == responses[idx]
        IN /\ Len(resp.output_tau) = N
           /\ \A k \in 1..N :
                resp.output_tau[k] = DeclaredCast(req.input_tau[k], "output_tau")
           /\ GridIsCastOf(resp.output_inner, output_inner_forconv, N, InnerGrid,
                           "output_inner")
           /\ GridIsCastOf(resp.output_outer, output_outer_forconv, N, OuterGrid,
                           "output_outer")

\* three different declared datatypes, each changing the value it casts
C5_Witness ==
    /\ AfterIteration
    /\ NumObjects(requests[idx]) = 2
    /\ model_config["output_tau"].data_type = "TYPE_INT32"
    /\ model_config["output_inner"].data_type = "TYPE_BOOL"
    /\ model_config["output_outer"].data_type = "TYPE_FP32"
    /\ responses[idx].output_tau = <<-2, 0>>
    /\ requests[idx].input_tau = <<-3, 1>>
    /\ responses[idx].output_inner[0][0][0] # output_inner_forconv[0][0][0]
    /\ responses[idx].output_outer[0][0][0] = output_outer_forconv[0][0][0]

(***************************************************************************)
(* C10: an index entry with a negative coordinate in wraparound range (n   *)
(* in [-N,-1], row/col in [-G,-1]) raises no error: the feature vector is  *)
(* written into the cell obtained by adding N (resp. G) to the coordinate, *)
(* so a cell no non-negative entry addresses can hold a non-sentinel       *)
(* value, and the call returns one response per request.                   *)
(***************************************************************************)
WrapRange(pos, N, G) ==
    \A k \in 1..Len(pos) :
        /\ -N <= pos[k][1] /\ pos[k][1] < N
        /\ -G <= pos[k][2] /\ pos[k][2] < G
        /\ -G <= pos[k][3] /\ pos[k][3] < G

HasNegative(pos) ==
    \E k \in 1..Len(pos) : pos[k][1] < 0 \/ pos[k][2] < 0 \/ pos[k][3] < 0

WrapRequest(req) ==
    /\ WrapRange(req.input_inner_pos, NumObjects(req), InnerGrid)
    /\ WrapRange(req.input_outer_pos, NumObjects(req), OuterGrid)
    /\ HasNegative(req.input_inner_pos) \/ HasNegative(req.input_outer_pos)

Plus(i, dim) == IF i < 0 THEN i + dim ELSE i

WrappedCell(e, N, G) == <<Plus(e[1], N), Plus(e[2], G), Plus(e[3], G)>>

WrappedWrites(grid, pos, batch, N, G) ==
    /\ HasShape(grid, N, G)
    /\ \A i \in 1..Len(pos) :
        LET cell == WrappedCell(pos[i], N, G)
        IN (\A k \in (i + 1)..Len(pos) : WrappedCell(pos[k], N, G) # cell) =>
               grid[cell[1]][cell[2]][cell[3]] = FeatureOf(batch, i)

C10_NegativeIndicesWrap ==
    /\ (AfterIteration /\ WrapRequest(requests[idx])) =>
          LET req == requests[idx]
              N == NumObjects(req)
          IN /\ WrappedWrites(output_inner_forconv, req.input_inner_pos,
                              req.input_inner_forconv, N, InnerGrid)
             /\ WrappedWrites(output_outer_forconv, req.input_outer_pos,
                              req.input_outer_forconv, N, OuterGrid)
    /\ (result.kind # "none"
        /\ \A j \in 1..Len(result.requests) : WrapRequest(result.requests[j])) =>
          /\ result.kind = "returned"
          /\ Len(result.responses) = Len(result.requests)

\* the only inner entry is (-1,-8,-7) on two objects: cell (1,3,4), which no
\* entry names, holds the feature row and not the sentinel
C10_Witness ==
    /\ AfterIteration
    /\ NumObjects(requests[idx]) = 2
    /\ requests[idx].input_inner_pos = <<<<-1, -8, -7>>>>
    /\ ~Addressed(requests[idx].input_inner_pos, <<1, 3, 4>>)
    /\ output_inner_forconv[1][3][4] = FeatureOf(requests[idx].input_inner_forconv, 1)
    /\ output_inner_forconv[1][3][4] # SentinelOf(requests[idx].input_inner_forconv)
    /\ output_inner_forconv[0][3][4] = SentinelOf(requests[idx].input_inner_forconv)

(***************************************************************************)
(* C4: for a list of k valid requests (k >= 0) execute returns a list of   *)
(* exactly k responses, the j-th built from the j-th request: its score    *)
(* has length N_j and its grids have batch dimension N_j, N_j being the    *)
(* length of the j-th request's input_tau.                                 *)
(***************************************************************************)
\* no entry of the request makes the scatter raise
Accepted(req) ==
    /\ WrapRange(req.input_inner_pos, NumObjects(req), InnerGrid)
    /\ WrapRange(req.input_outer_pos, NumObjects(req), OuterGrid)

BuiltFrom(resp, req) ==
    LET N == NumObjects(req)
    IN /\ Len(resp.output_tau) = N
       /\ \A k \in 1..N : resp.output_tau[k] = DeclaredCast(req.input_tau[k], "output_tau")
       /\ HasShape(resp.output_inner, N, InnerGrid)
       /\ HasShape(resp.output_outer, N, OuterGrid)
       /\ N >= 1 =>
            /\ ~Addressed(req.input_inner_pos, <<0, 0, 0>>) =>
                 \A f \in 1..InnerF :
                     resp.output_inner[0][0][0][f]
                         = DeclaredCast(SentinelOf(req.input_inner_forconv)[f],
                                        "output_inner")
            /\ ~Addressed(req.input_outer_pos, <<0, 0, 0>>) =>
                 \A f \in 1..OuterF :
                     resp.output_outer[0][0][0][f]
                         = DeclaredCast(SentinelOf(req.input_outer_forconv)[f],
                                        "output_outer")

C4_OneResponsePerRequestInOrder ==
    /\ (result.kind # "none"
        /\ \A j \in 1..Len(result.requests) : Accepted(result.requests[j])) =>
          /\ result.kind = "returned"
          /\ Len(result.responses) = Len(result.requests)
    /\ result.kind = "returned" =>
          /\ Len(result.responses) = Len(result.requests)
          /\ \A j \in 1..Len(result.requests) :
                BuiltFrom(result.responses[j], result.requests[j])

\* a returned call of two requests with different object counts and
\* different sentinels
C4_Witness ==
    /\ result.kind = "returned"
    /\ Len(result.requests) = 2
    /\ Len(result.responses) = 2
    /\ NumObjects(result.requests[1]) = 2
    /\ NumObjects(result.requests[2]) = 1
    /\ Len(result.responses[1].output_tau) = 2
    /\ Len(result.responses[2].output_tau) = 1
    /\ result.responses[1].output_inner[0][0][0] # result.responses[2].output_inner[0][0][0]

(***************************************************************************)
(* C7: if the scatter of any request of a call raises an indexing error    *)
(* (an entry with n >= N, or row/col >= the grid size), the error leaves   *)
(* execute uncaught and the whole call fails: no response list is          *)
(* returned, not even for earlier requests whose responses had been built, *)
(* and no error response is attached to the failing request.               *)
(***************************************************************************)
PastGrid(pos, N, G) ==
    \E k \in 1..Len(pos) : pos[k][1] >= N \/ pos[k][2] >= G \/ pos[k][3] >= G

ScatterRaises(req) ==
    \/ PastGrid(req.input_inner_pos, NumObjects(req), InnerGrid)
    \/ PastGrid(req.input_outer_pos, NumObjects(req), OuterGrid)

C9_Frame ==
    [][/\ pc # "unloaded" => selfVars' = selfVars
       /\ pc = "executing" =>
            \/ pc' = "executing" /\ requests' = requests
            \/ pc' = "ready" /\ result'.requests = requests]_vars

\* finalize after a call that scattered into both grids and returned
C9_Witness ==
    /\ pc = "finalized"
    /\ result.kind = "returned"
    /\ Len(result.requests) = 2
    /\ Len(result.requests[2].input_inner_pos) = 1
    /\ SentinelOf(result.requests[2].input_inner_forconv)
         # FeatureOf(result.requests[2].input_inner_forconv, 1)
    /\ self_output_inner_dtype = "int32"
    /\ model_config["output_inner"].data_type = "TYPE_INT32"

(***************************************************************************)
(* C6: running execute twice on the same instance with identical requests  *)
(* gives identical responses: the second run depends neither on the first  *)
(* nor on any execute call made in between.                                *)
(***************************************************************************)
C6_SameRequestsSameOutcome ==
    (prev.kind # "none" /\ result.kind # "none" /\ prev.requests = result.requests) =>
        /\ prev.kind = result.kind
        /\ prev.responses = result.responses
        /\ prev.error = result.error

\* the same two-request call finished twice, with a scatter in it
C6_Witness ==
    /\ prev.kind = "returned"
    /\ result.kind = "returned"
    /\ prev.requests = result.requests
    /\ Len(result.requests) = 2
    /\ Len(result.requests[1].input_inner_pos) = 1
    /\ Len(result.requests[2].input_inner_pos) = 0
    /\ prev.responses = result.responses
    /\ model_config["output_inner"].data_type = "TYPE_INT32"

(***************************************************************************)
(* C8: within one execute call over several requests, the response for     *)
(* request j depends only on request j's input tensors and on the output   *)
(* datatypes: replacing the other requests of the call by different ones   *)
(* leaves response j unchanged, and nothing written into another           *)
(* request's grids appears in request j's grids.                           *)
(***************************************************************************)
Finished == {c \in {prev, result} : c.kind = "returned"}

C8_ResponseDependsOnItsRequestOnly ==
    \A c1 \in Finished, c2 \in Finished :
        /\ Len(c1.responses) = Len(c1.requests)
        /\ \A j1 \in 1..Len(c1.requests), j2 \in 1..Len(c2.requests) :
              (j2 <= Len(c2.responses) /\ c1.requests[j1] = c2.requests[j2]) =>
                  c1.responses[j1] = c2.responses[j2]

\* the request without entries answered alone and answered after a request
\* that scattered into cell (0,3,4): the same response, all sentinel
C8_Witness ==
    /\ prev.kind = "returned"
    /\ result.kind = "returned"
    /\ Len(prev.requests) = 1
    /\ Len(result.requests) = 2
    /\ result.requests[2] = prev.requests[1]
    /\ result.requests[1] # prev.requests[1]
    /\ Len(result.requests[1].input_inner_pos) = 1
    /\ Len(result.requests[2].input_inner_pos) = 0
    /\ result.responses[2] = prev.responses[1]
    /\ result.responses[1].output_inner[0][3][4] # result.responses[2].output_inner[0][3][4]
    /\ model_config["output_inner"].data_type = "TYPE_FP32"

====
